---- MODULE Spec2Model ----
(***************************************************************************)
(* Model of hyperliquid_vault_filter.py: fetch_vault_summaries (snapshot    *)
(* first, info endpoint as fallback), process_vaults (field normalisation)  *)
(* and the range filter applied in main.                                    *)
(*                                                                          *)
(* Numbers.  Python floats are modelled by integers in a fixed unit per     *)
(* field:                                                                   *)
(*   APR, TVL and the APR/TVL bounds : 1/100        (0.12 is 12, 1 is One)  *)
(*   timestamps                      : 3600 seconds (one hour)              *)
(*   age_days and the age bounds     : 1/24 day     (0.5 day is 12)         *)
(* Strings are sequences of one-character strings, so that float() of a     *)
(* string is computed from its characters.                                  *)
(***************************************************************************)
EXTENDS Integers, Sequences, FiniteSets, TLC

VARIABLES
    pc,          \* position of main / fetch_vault_summaries
    cfg,         \* the six sidebar inputs
    snap,        \* response of GET stats_url, NoResp before the request
    info,        \* response of POST info_url, NoResp before the request
    lz4,         \* "unknown" | "missing" | "present": outcome of import lz4.frame
    requests,    \* HTTP requests issued so far, in order
    decomp,      \* decompression attempts so far: <<scheme, succeeded>>
    data_bytes,  \* local data_bytes of fetch_vault_summaries
    decoded,     \* the bytes handed to decode/json.loads, NoBytes before
    errors,      \* st.error messages
    warnings,    \* st.warning messages
    raw_data,    \* list returned by fetch_vault_summaries
    records,     \* list of row dicts built by process_vaults
    df,          \* DataFrame.from_records(records)
    filtered_df  \* the filtered frame main displays

vars == <<pc, cfg, snap, info, lz4, requests, decomp, data_bytes, decoded,
          errors, warnings, raw_data, records, df, filtered_df>>

(***************************************************************************)
(* Bounds of the model.                                                     *)
(***************************************************************************)
\* longest list of vault records a response carries
MaxBatch == 2
\* most keys a record drawn for process_vaults alone carries
MaxKeys == 2

(***************************************************************************)
(* JSON values.                                                             *)
(***************************************************************************)
Null == [kind |-> "null", n |-> 0, cs |-> <<>>]
Num(x) == [kind |-> "num", n |-> x, cs |-> <<>>]
Str(s) == [kind |-> "str", n |-> 0, cs |-> s]
Arr == [kind |-> "list", n |-> 0, cs |-> <<>>]
\* a JSON object used as a vault record: m maps its keys to values
Map(f) == [kind |-> "map", m |-> f]
IsMap(v) == v.kind = "map"

\* 1.0 in the APR/TVL unit
One == 100
\* datetime.now(timezone.utc).timestamp(), in hours
NowTs == 500000
\* the largest timestamp (in hours) that is not above 1e12 seconds
MsThreshold == 277777777

Digits == {"0", "1", "2", "3", "4", "5", "6", "7", "8", "9"}

DigitVal(c) ==
    CASE c = "0" -> 0 [] c = "1" -> 1 [] c = "2" -> 2 [] c = "3" -> 3
      [] c = "4" -> 4 [] c = "5" -> 5 [] c = "6" -> 6 [] c = "7" -> 7
      [] c = "8" -> 8 [] c = "9" -> 9

RECURSIVE DecVal(_)
DecVal(s) ==
    IF s = <<>> THEN 0
    ELSE 10 * DecVal(SubSeq(s, 1, Len(s) - 1)) + DigitVal(s[Len(s)])

Failed == [ok |-> FALSE, x |-> 0]
Parsed(x) == [ok |-> TRUE, x |-> x]

StripNonDigits(s) == SelectSeq(s, LAMBDA c : c \in Digits)

\* float(val) with the characters that are not digits removed first
PyFloatCleaning(val) ==
    CASE val.kind = "num" -> Parsed(val.n)
      [] val.kind = "str" ->
            IF StripNonDigits(val.cs) # <<>>
            THEN Parsed(DecVal(StripNonDigits(val.cs)) * One)
            ELSE Failed
      [] OTHER -> Failed

\* float(val): a number is itself, a string parses when it is a run of
\* digits (ValueError otherwise), a list raises TypeError
PyFloat(val) ==
    CASE val.kind = "num" -> Parsed(val.n)
      [] val.kind = "str" ->
            IF val.cs # <<>> /\ \A i \in 1..Len(val.cs) : val.cs[i] \in Digits
            THEN Parsed(DecVal(val.cs) * One)
            ELSE Failed
      [] OTHER -> Failed

\* v.get(key) on a dict
Get(v, key) == IF key \in DOMAIN v.m THEN v.m[key] ELSE Null

\* truth value of a JSON value (if ts:)
Truthy(val) ==
    CASE val.kind = "null" -> FALSE
      [] val.kind = "num" -> val.n # 0
      [] val.kind = "str" -> val.cs # <<>>
      [] OTHER -> TRUE

AprKeys == <<"apr", "apy", "apr30d", "aprTrailing", "annualizedReturn",
             "currentApr", "roiTrailing">>
TvlKeys == <<"tvl", "totalDeposits", "tvlUsd">>
TsKeys == <<"createTimeMillis", "createdTs", "createdTime", "startTimestamp",
            "createdAt">>

\* the candidate loop without its break: the last candidate that parses wins
RECURSIVE FirstFloatNoBreak(_, _)
FirstFloatNoBreak(v, keys) ==
    IF keys = <<>> THEN Failed
    ELSE LET rest == FirstFloatNoBreak(v, Tail(keys))
             val == Get(v, Head(keys))
         IN  IF rest.ok THEN rest
             ELSE IF val.kind # "null" THEN PyFloat(val) ELSE Failed

\* for key in keys: val = v.get(key); if val is not None: try float(val), break
RECURSIVE FirstFloat(_, _)
FirstFloat(v, keys) ==
    IF keys = <<>> THEN Failed
    ELSE LET val == Get(v, Head(keys))
         IN  IF val.kind # "null" /\ PyFloat(val).ok
             THEN PyFloat(val)
             ELSE FirstFloat(v, Tail(keys))

\* the fraction test with its upper end left out
AprPercOpen(sel) ==
    IF ~sel.ok THEN 0
    ELSE IF 0 <= sel.x /\ sel.x < One THEN sel.x * 100
    ELSE sel.x

\* apr_perc from apr_value
AprPerc(sel) ==
    IF ~sel.ok THEN 0
    ELSE IF 0 <= sel.x /\ sel.x <= One THEN sel.x * 100
    ELSE sel.x

\* tvl_val with its default
TvlVal(sel) == IF sel.ok THEN sel.x ELSE 0

AgeNone == <<"None">>
AgeNaN == <<"NaN">>
AgeVal(x) == <<"float", x>>
IsAgeVal(a) == a[1] = "float"

\* age from one timestamp value; values above 1e12 are milliseconds
AgeOf(ts_float) ==
    IF ts_float > MsThreshold
    THEN NowTs - (ts_float \div 1000)
    ELSE NowTs - ts_float

\* for key in TsKeys: ts = v.get(key); if ts: try float(ts) ..., break
RECURSIVE AgeDays(_, _)
AgeDays(v, keys) ==
    IF keys = <<>> THEN AgeNone
    ELSE LET ts == Get(v, Head(keys))
         IN  IF Truthy(ts) /\ PyFloat(ts).ok
             THEN AgeVal(AgeOf(PyFloat(ts).x))
             ELSE AgeDays(v, Tail(keys))

\* the dict appended to records for one vault
MakeRecord(v) ==
    [apr |-> AprPerc(FirstFloat(v, AprKeys)),
     tvl |-> TvlVal(FirstFloat(v, TvlKeys)),
     age_days |-> AgeDays(v, TsKeys),
     raw |-> v]

\* the loop of process_vaults: v.get raises AttributeError on an element
\* that is not a dict, and nothing in process_vaults catches it
Raises(raw) == \E i \in 1..Len(raw) : ~IsMap(raw[i])

process_vaults(raw) == [i \in 1..Len(raw) |-> MakeRecord(raw[i])]


(***************************************************************************)
(* pandas: DataFrame.from_records and the three boolean-mask selections.    *)
(***************************************************************************)
\* DataFrame.from_records(records): a row per record, indexed from 0.  The
\* age_days column is float64 as soon as one record carries a float, and a
\* None in a float64 column is stored as NaN; a column of None alone stays
\* an object column of None.
FromRecords(recs) ==
    LET anyFloat == \E i \in 1..Len(recs) : IsAgeVal(recs[i].age_days)
    IN  [i \in 1..Len(recs) |->
            [idx |-> i - 1,
             apr |-> recs[i].apr,
             tvl |-> recs[i].tvl,
             age_days |-> IF anyFloat /\ recs[i].age_days = AgeNone
                          THEN AgeNaN ELSE recs[i].age_days,
             raw |-> recs[i].raw]]

\* the APR mask with its upper bound left out
AprMaskNoMax(c, row) == row.apr >= c.min_apr

\* (df["apr"] >= min_apr) & (df["apr"] <= max_apr)
AprMask(c, row) == row.apr >= c.min_apr /\ row.apr <= c.max_apr

\* (filtered_df["tvl"] >= min_tvl) & (filtered_df["tvl"] <= max_tvl)
TvlMask(c, row) == row.tvl >= c.min_tvl /\ row.tvl <= c.max_tvl

\* age_filter(val): val is None or (min_age <= val <= max_age); every
\* comparison with NaN is False
age_filter(c, val) ==
    \/ val = AgeNone
    \/ IsAgeVal(val) /\ c.min_age <= val[2] /\ val[2] <= c.max_age

\* the APR selection followed by the TVL selection
SelectAprTvl(c, frame) ==
    SelectSeq(SelectSeq(frame, LAMBDA row : AprMask(c, row)),
              LAMBDA row : TvlMask(c, row))

\* filtered_df[filtered_df["age_days"].apply(age_filter)] on a frame with rows
SelectAge(c, frame) == SelectSeq(frame, LAMBDA row : age_filter(c, row.age_days))

(***************************************************************************)
(* HTTP responses and their bodies.  A body is the JSON text it carries     *)
(* (text), how it is compressed (enc) and whether JSON whitespace precedes  *)
(* it (ws).                                                                 *)
(***************************************************************************)
NoBytes == [enc |-> "none", ws |-> FALSE, text |-> [t |-> "none", items |-> <<>>]]
NoResp == [status |-> "none", body |-> NoBytes]

ListText(batch) == [t |-> "list", items |-> batch]
\* a JSON object, a JSON scalar, malformed text that starts with "[",
\* malformed text that does not, bytes that are not UTF-8, no bytes at all
OtherTexts ==
    {[t |-> k, items |-> <<>>] :
        k \in {"object", "scalar", "bad_bracket", "bad_other", "bad_utf8", "empty"}}

\* first_char: the first byte that is not whitespace.  An LZ4 frame starts
\* 04 22 4D 18; a gzip member starts 1F 8B, and chr(0x1f).isspace() holds,
\* so the loop stops at 8B
FirstChar(b) ==
    CASE b.enc = "lz4" -> "x04"
      [] b.enc = "gzip" -> "x8b"
      [] b.text.t \in {"list", "bad_bracket"} -> "["
      [] b.text.t = "object" -> "{"
      [] b.text.t = "scalar" -> "n"
      [] b.text.t = "bad_other" -> "<"
      [] b.text.t = "bad_utf8" -> "xff"
      [] OTHER -> "None"

\* lz4.frame.decompress / gzip.decompress: succeeds on its own format only
Decompress(scheme, b) ==
    IF b.enc = scheme
    THEN [ok |-> TRUE, out |-> [b EXCEPT !.enc = "plain"]]
    ELSE [ok |-> FALSE, out |-> NoBytes]

\* json.loads(data_bytes.decode("utf-8")): raises on compressed bytes, on
\* bytes that are not UTF-8 and on text that is not JSON
JsonLoads(b) ==
    IF b.enc = "plain" /\ b.text.t \in {"list", "object", "scalar"}
    THEN [ok |-> TRUE, isList |-> b.text.t = "list", items |-> b.text.items]
    ELSE [ok |-> FALSE, isList |-> FALSE, items |-> <<>>]

RECURSIVE SeqsUpTo(_, _)
SeqsUpTo(S, n) ==
    IF n = 0 THEN {<<>>}
    ELSE LET shorter == SeqsUpTo(S, n - 1)
         IN  shorter \cup {Append(s, x) : s \in shorter, x \in S}

(***************************************************************************)
(* Inputs of the full run: vault records the endpoints deliver.             *)
(***************************************************************************)
\* 12 % APR, TVL 5808, created 12 hours ago (milliseconds)
VaultA ==
    Map([k \in {"apr", "tvl", "createTimeMillis"} |->
          CASE k = "apr" -> Num(12)
            [] k = "tvl" -> Num(580800)
            [] OTHER -> Num((NowTs - 12) * 1000)])
\* 50 % APY, deposits 70, no timestamp
VaultB ==
    Map([k \in {"apy", "totalDeposits"} |->
          CASE k = "apy" -> Num(50) [] OTHER -> Str(<<"7", "0">>)])
\* an element that is not a JSON object
NotAMap == Str(<<"x">>)

FetchPool == {VaultA, VaultB, NotAMap}
FetchBatches == SeqsUpTo(FetchPool, MaxBatch)

PlainBodies ==
    {[enc |-> "plain", ws |-> w, text |-> t] :
        w \in BOOLEAN, t \in OtherTexts \cup {ListText(b) : b \in FetchBatches}}
PackedBodies ==
    {[enc |-> e, ws |-> FALSE, text |-> t] :
        e \in {"lz4", "gzip"},
        t \in {[t |-> "object", items |-> <<>>]} \cup
              {ListText(b) : b \in FetchBatches}}

\* requests.get(stats_url) raises, raise_for_status raises, or a body arrives
SnapResponses ==
    {[status |-> s, body |-> NoBytes] : s \in {"neterr", "http500"}}
    \cup {[status |-> "ok", body |-> b] : b \in PlainBodies \cup PackedBodies}

\* requests.post(info_url) likewise; resp.json() reads the body
InfoResponses ==
    {[status |-> s, body |-> NoBytes] : s \in {"neterr", "http500"}}
    \cup {[status |-> "ok", body |-> [enc |-> "plain", ws |-> FALSE, text |-> t]] :
            t \in {[t |-> k, items |-> <<>>] : k \in {"object", "bad_other"}}
                  \cup {ListText(b) : b \in FetchBatches}}

\* the sidebar: every minimum is at least 0, the APR bounds at most 100
MkCfg(a, b, c, d, e, f) ==
    [min_apr |-> a, max_apr |-> b, min_tvl |-> c, max_tvl |-> d,
     min_age |-> e, max_age |-> f]
FetchConfigs ==
    {MkCfg(0, 100 * One, 0, 1000000 * One, 0, 240000),
     MkCfg(20 * One, 100 * One, 0, 1000000 * One, 24, 240000)}

(***************************************************************************)
(* fetch_vault_summaries and main, step by step.                            *)
(***************************************************************************)
Init ==
    /\ pc = "fetch"
    /\ cfg \in FetchConfigs
    /\ snap = NoResp
    /\ info = NoResp
    /\ lz4 = "unknown"
    /\ requests = <<>>
    /\ decomp = <<>>
    /\ data_bytes = NoBytes
    /\ decoded = NoBytes
    /\ errors = <<>>
    /\ warnings = <<>>
    /\ raw_data = <<>>
    /\ records = <<>>
    /\ df = <<>>
    /\ filtered_df = <<>>

\* the GET with the except clause around it turned into a re-raise
SnapshotGetRaising ==
    /\ pc = "fetch"
    /\ \E r \in SnapResponses :
        /\ snap' = r
        /\ requests' = Append(requests, "GET stats")
        /\ IF r.status = "ok"
           THEN data_bytes' = r.body /\ pc' = "sniff"
           ELSE data_bytes' = data_bytes /\ pc' = "crashed"
    /\ UNCHANGED <<cfg, info, lz4, decomp, decoded, errors, warnings, raw_data,
                   records, df, filtered_df>>

\* resp = requests.get(stats_url); resp.raise_for_status(); resp.content.
\* An exception is swallowed and the info request follows
SnapshotGet ==
    /\ pc = "fetch"
    /\ \E r \in SnapResponses :
        /\ snap' = r
        /\ requests' = Append(requests, "GET stats")
        /\ IF r.status = "ok"
           THEN data_bytes' = r.body /\ pc' = "sniff"
           ELSE data_bytes' = data_bytes /\ pc' = "info"
    /\ UNCHANGED <<cfg, info, lz4, decomp, decoded, errors, warnings, raw_data,
                   records, df, filtered_df>>

\* the test on first_char inverted
SniffInverted ==
    /\ pc = "sniff"
    /\ pc' = IF FirstChar(data_bytes) \in {"{", "["} THEN "lz4" ELSE "decode"
    /\ UNCHANGED <<cfg, snap, info, lz4, requests, decomp, data_bytes, decoded,
                   errors, warnings, raw_data, records, df, filtered_df>>

\* first_char scan and the test first_char not in ("{", "[")
Sniff ==
    /\ pc = "sniff"
    /\ pc' = IF FirstChar(data_bytes) \in {"{", "["} THEN "decode" ELSE "lz4"
    /\ UNCHANGED <<cfg, snap, info, lz4, requests, decomp, data_bytes, decoded,
                   errors, warnings, raw_data, records, df, filtered_df>>

\* import lz4.frame; decompressed = lz4.frame.decompress(data_bytes)
TryLz4 ==
    /\ pc = "lz4"
    /\ \E have \in {"missing", "present"} :
        /\ lz4' = have
        /\ IF have = "present"
           THEN LET r == Decompress("lz4", data_bytes)
                IN  /\ decomp' = Append(decomp, <<"lz4", r.ok>>)
                    /\ IF r.ok
                       THEN data_bytes' = r.out /\ pc' = "decode"
                       ELSE data_bytes' = data_bytes /\ pc' = "gzip"
           ELSE /\ decomp' = decomp
                /\ data_bytes' = data_bytes
                /\ pc' = "gzip"
    /\ UNCHANGED <<cfg, snap, info, requests, decoded, errors, warnings, raw_data,
                   records, df, filtered_df>>

\* if decompressed is None: decompressed = gzip.decompress(data_bytes)
TryGzip ==
    /\ pc = "gzip"
    /\ LET r == Decompress("gzip", data_bytes)
       IN  /\ decomp' = Append(decomp, <<"gzip", r.ok>>)
           /\ data_bytes' = IF r.ok THEN r.out ELSE data_bytes
    /\ pc' = "decode"
    /\ UNCHANGED <<cfg, snap, info, lz4, requests, decoded, errors, warnings,
                   raw_data, records, df, filtered_df>>

\* text = data_bytes.decode("utf-8"); snapshot = json.loads(text);
\* a non-empty list is returned, anything else leads to the info request
Decode ==
    /\ pc = "decode"
    /\ decoded' = data_bytes
    /\ LET r == JsonLoads(data_bytes)
       IN  IF r.ok /\ r.isList /\ r.items # <<>>
           THEN raw_data' = r.items /\ pc' = "process"
           ELSE raw_data' = raw_data /\ pc' = "info"
    /\ UNCHANGED <<cfg, snap, info, lz4, requests, decomp, data_bytes, errors,
                   warnings, records, df, filtered_df>>

ErrorMessage(exc) ==
    <<"Failed to fetch vault summaries from both endpoints", exc>>

\* the exception the info request ends with, "none" when it ends with none
InfoException(r) ==
    CASE r.status = "neterr" -> "ConnectionError"
      [] r.status = "http500" -> "HTTPError"
      [] ~JsonLoads(r.body).ok -> "JSONDecodeError"
      [] OTHER -> "none"

\* the info request with st.error left out of its except clause
InfoPostSilent ==
    /\ pc = "info"
    /\ \E r \in InfoResponses :
        /\ info' = r
        /\ requests' = Append(requests, "POST info")
        /\ errors' = errors
        /\ raw_data' = IF InfoException(r) = "none" /\ JsonLoads(r.body).isList
                       THEN JsonLoads(r.body).items ELSE <<>>
    /\ pc' = "process"
    /\ UNCHANGED <<cfg, snap, lz4, decomp, data_bytes, decoded, warnings, records,
                   df, filtered_df>>

\* resp = requests.post(info_url, ...); raise_for_status(); data = resp.json();
\* a list is returned; an exception is shown with st.error; [] otherwise
InfoPost ==
    /\ pc = "info"
    /\ \E r \in InfoResponses :
        /\ info' = r
        /\ requests' = Append(requests, "POST info")
        /\ errors' = IF InfoException(r) = "none" THEN errors
                     ELSE Append(errors, ErrorMessage(InfoException(r)))
        /\ raw_data' = IF InfoException(r) = "none" /\ JsonLoads(r.body).isList
                       THEN JsonLoads(r.body).items ELSE <<>>
    /\ pc' = "process"
    /\ UNCHANGED <<cfg, snap, lz4, decomp, data_bytes, decoded, warnings, records,
                   df, filtered_df>>

\* df = process_vaults(raw_data); if df.empty: st.warning(...); return.
\* An AttributeError raised in process_vaults leaves main
Process ==
    /\ pc = "process"
    /\ IF Raises(raw_data)
       THEN /\ pc' = "crashed"
            /\ UNCHANGED <<records, df, warnings>>
       ELSE /\ records' = process_vaults(raw_data)
            /\ df' = FromRecords(process_vaults(raw_data))
            /\ IF raw_data = <<>>
               THEN /\ warnings' = Append(warnings, "No vault data available.")
                    /\ pc' = "nodata"
               ELSE /\ warnings' = warnings
                    /\ pc' = "filter"
    /\ UNCHANGED <<cfg, snap, info, lz4, requests, decomp, data_bytes, decoded,
                   errors, raw_data, filtered_df>>

\* the three selections, then st.dataframe(filtered_df.drop(columns=["raw"]) ...).
\* On a frame without rows Series.apply returns an empty Series of the
\* column's dtype, which is no boolean mask: DataFrame.__getitem__ then takes
\* it for a list of column labels and returns a frame without columns, and
\* drop(columns=["raw"]) raises KeyError, which leaves main
Filter ==
    /\ pc = "filter"
    /\ IF SelectAprTvl(cfg, df) = <<>>
       THEN filtered_df' = <<>> /\ pc' = "crashed"
       ELSE filtered_df' = SelectAge(cfg, SelectAprTvl(cfg, df)) /\ pc' = "table"
    /\ UNCHANGED <<cfg, snap, info, lz4, requests, decomp, data_bytes, decoded,
                   errors, warnings, raw_data, records, df>>

Next ==
    \/ SnapshotGet
    \/ Sniff
    \/ TryLz4
    \/ TryGzip
    \/ Decode
    \/ InfoPost
    \/ Process
    \/ Filter

Spec == Init /\ [][Next]_vars


(***************************************************************************)
(* process_vaults and the filter on their own: main from the point where    *)
(* fetch_vault_summaries has returned a snapshot delivered as plain JSON.   *)
(***************************************************************************)
Rec3(k1, v1, k2, v2, k3, v3) ==
    Map([k \in {k1, k2, k3} |-> IF k = k1 THEN v1 ELSE IF k = k2 THEN v2 ELSE v3])

\* 150 % APR, otherwise in range
VaultHighApr == Rec3("apr", Num(150 * One), "tvl", Num(200 * One),
                     "createdTs", Num(NowTs - 48))
\* negative APR
VaultNegApr == Rec3("apr", Num(-5 * One), "tvl", Num(200 * One),
                    "createdTime", Num(NowTs - 48))
\* negative TVL
VaultNegTvl == Rec3("aprTrailing", Num(30), "tvlUsd", Num(-1 * One),
                    "startTimestamp", Num(NowTs - 48))
\* created one day in the future
VaultFuture == Rec3("apr", Num(30), "tvl", Num(200 * One),
                    "createdAt", Num(NowTs + 24))

FilterPool == {VaultA, VaultB, VaultHighApr, VaultNegApr, VaultNegTvl,
               VaultFuture, NotAMap}
FilterBatches == SeqsUpTo(FilterPool, MaxBatch) \ {<<>>}

FilterConfigs ==
    {MkCfg(a, b, c, d, e, f) :
        a \in {0, 20 * One}, b \in {10 * One, 100 * One},
        c \in {0, 100 * One}, d \in {1000 * One, 1000000 * One},
        e \in {0, 24}, f \in {6, 240000}}

\* main after fetch_vault_summaries returned batch from the snapshot
AfterFetch(batch, c) ==
    /\ pc = "process"
    /\ cfg = c
    /\ snap = [status |-> "ok",
               body |-> [enc |-> "plain", ws |-> FALSE, text |-> ListText(batch)]]
    /\ info = NoResp
    /\ lz4 = "unknown"
    /\ requests = <<"GET stats">>
    /\ decomp = <<>>
    /\ data_bytes = snap.body
    /\ decoded = snap.body
    /\ errors = <<>>
    /\ warnings = <<>>
    /\ raw_data = batch
    /\ records = <<>>
    /\ df = <<>>
    /\ filtered_df = <<>>

InitFilter == \E batch \in FilterBatches, c \in FilterConfigs : AfterFetch(batch, c)

NextFilter ==
    \/ Process
    \/ Filter

SpecFilter == InitFilter /\ [][NextFilter]_vars

(***************************************************************************)
(* process_vaults on one record drawn from every choice of at most MaxKeys  *)
(* candidate keys and their values.  Timestamp strings are not numeric: the *)
(* timestamp unit has no integer for one second.                            *)
(***************************************************************************)
Junk == Str(<<"$", "5", ",", "8", "0", "8">>)

AprVals == {Null, Num(-50), Num(0), Num(12), Num(One), Num(150 * One),
            Str(<<"7">>), Junk, Arr}
TvlVals == {Null, Num(0), Num(580800), Str(<<"4", "2">>), Junk, Arr}
TsVals == {Null, Num(0), Num((NowTs - 12) * 1000), Num(NowTs - 48), Junk, Arr}

SeqRange(s) == {s[i] : i \in 1..Len(s)}
AllKeys == SeqRange(AprKeys) \cup SeqRange(TvlKeys) \cup SeqRange(TsKeys)

ValsFor(k) ==
    IF k \in SeqRange(AprKeys) THEN AprVals
    ELSE IF k \in SeqRange(TvlKeys) THEN TvlVals
    ELSE TsVals

RECURSIVE MapsOver(_)
MapsOver(S) ==
    IF S = {} THEN {[k \in {} |-> Null]}
    ELSE LET k == CHOOSE x \in S : TRUE
         IN  {(k :> v) @@ f : f \in MapsOver(S \ {k}), v \in ValsFor(k)}

\* the record of the worked example: apr 0.12, tvl "$5,808", created 12
\* hours ago in milliseconds
ExampleRecord ==
    Rec3("apr", Num(12), "tvl", Junk, "createTimeMillis", Num((NowTs - 12) * 1000))

KeySets == {T \in SUBSET AllKeys : Cardinality(T) <= MaxKeys}

DefaultCfg == MkCfg(0, 100 * One, 0, 1000000 * One, 0, 240000)

InitNorm ==
    \/ AfterFetch(<<ExampleRecord>>, DefaultCfg)
    \/ \E S \in KeySets : \E f \in MapsOver(S) : AfterFetch(<<Map(f)>>, DefaultCfg)

NextNorm == Process

SpecNorm == InitNorm /\ [][NextNorm]_vars


(***************************************************************************)
(* Properties of fetch_vault_summaries (specification Spec).                *)
(***************************************************************************)
InSnapshotAttempt == pc \in {"fetch", "sniff", "lz4", "gzip", "decode"}
FetchReturned == pc \in {"process", "filter", "table", "nodata", "crashed"}

\* the body can be read as text: it is plain, or packed in a scheme the
\* build can unpack
Readable(b) ==
    \/ b.enc = "plain"
    \/ b.enc = "gzip"
    \/ b.enc = "lz4" /\ lz4 = "present"

\* the snapshot holds records: a readable, non-empty JSON list
SnapshotHasRecords ==
    /\ snap.status = "ok"
    /\ Readable(snap.body)
    /\ snap.body.text.t = "list"
    /\ snap.body.text.items # <<>>

\* the snapshot attempt met an error: the request failed, the status was an
\* error status, or the body could not be unpacked, decoded or parsed
SnapshotErrored ==
    \/ snap.status \in {"neterr", "http500"}
    \/ /\ snap.status = "ok"
       /\ ~InSnapshotAttempt
       /\ \/ ~Readable(snap.body)
          \/ snap.body.text.t \in {"bad_bracket", "bad_other", "bad_utf8", "empty"}

\* the info request ended with an exception
InfoFailed ==
    \/ info.status \in {"neterr", "http500"}
    \/ info.status = "ok" /\ info.body.text.t \notin {"list", "object", "scalar"}

\* C1: the snapshot GET is the first request and the info POST is issued
\* only once the snapshot attempt has ended without records; an error in
\* the snapshot attempt shows no message and does not leave the function,
\* the info request follows and its list is what the function returns.
C1_SnapshotFirstThenInfo ==
    /\ requests \in {<<>>, <<"GET stats">>, <<"GET stats", "POST info">>}
    /\ Len(requests) = 2 => ~InSnapshotAttempt /\ snap # NoResp /\ ~SnapshotHasRecords
    /\ pc = "info" => requests = <<"GET stats">> /\ errors = <<>> /\ warnings = <<>>
    /\ SnapshotErrored /\ pc # "info" => Len(requests) = 2
    /\ FetchReturned /\ SnapshotHasRecords =>
          requests = <<"GET stats">> /\ raw_data = snap.body.text.items
    /\ FetchReturned /\ Len(requests) = 2 /\ info.status = "ok"
          /\ info.body.text.t = "list" => raw_data = info.body.text.items

C1_Witness ==
    /\ pc = "process"
    /\ snap.status = "http500"
    /\ requests = <<"GET stats", "POST info">>
    /\ info.status = "ok"
    /\ info.body.text.t = "list"
    /\ raw_data = <<VaultA, VaultB>>
    /\ errors = <<>>

\* C2: when the info request fails the function returns [] and shows
\* exactly one message, which carries the info request's exception; no
\* message is shown when the info request did not fail; the function always
\* returns (a run that stops early stops in main, on a list it returned).
C2_BothFailOneMessage ==
    /\ FetchReturned /\ InfoFailed =>
          /\ raw_data = <<>>
          /\ Len(errors) = 1
          /\ errors[1][2] = (CASE info.status = "neterr" -> "ConnectionError"
                               [] info.status = "http500" -> "HTTPError"
                               [] OTHER -> "JSONDecodeError")
    /\ ~InfoFailed => errors = <<>>
    /\ pc = "crashed" => raw_data # <<>> /\ Len(requests) >= 1

C2_Witness ==
    /\ pc = "nodata"
    /\ snap.status = "http500"
    /\ info.status = "http500"
    /\ raw_data = <<>>
    /\ Len(errors) = 1

\* the response bytes begin with "{" or "["
BeginsWithJson(b) ==
    b.enc = "plain" /\ ~b.ws /\ b.text.t \in {"list", "object", "bad_bracket"}

AllFailed(d) == d # <<>> /\ \A i \in 1..Len(d) : ~d[i][2]

\* C9: decompression is attempted only on bytes that do not begin with "{"
\* or "["; LZ4 comes first and gzip only when LZ4 was missing or failed; when
\* every attempt failed the original bytes are decoded, and every snapshot
\* body reaches the decode step.
C9_DecompressionPolicy ==
    /\ decomp # <<>> \/ pc \in {"lz4", "gzip"} => ~BeginsWithJson(snap.body)
    /\ \A i \in 1..Len(decomp) :
          decomp[i][1] = "gzip" =>
             \/ i = 1 /\ lz4 = "missing"
             \/ i = 2 /\ decomp[1] = <<"lz4", FALSE>>
    /\ \A i \in 1..Len(decomp) : decomp[i][1] = "lz4" => i = 1 /\ lz4 = "present"
    /\ Len(decomp) <= 2
    /\ AllFailed(decomp) /\ ~InSnapshotAttempt => decoded = snap.body
    /\ snap.status = "ok" /\ ~InSnapshotAttempt => decoded # NoBytes

C9_Witness ==
    /\ pc = "info"
    /\ decomp = << <<"lz4", FALSE>>, <<"gzip", FALSE>> >>
    /\ decoded = snap.body
    /\ snap.body.text.t = "scalar"

\* C7: an element that is not a key-value map is skipped, rows are produced
\* for the well-formed records and main reaches a rendered state.
C7_MalformedRecordSkipped ==
    /\ pc # "crashed"
    /\ pc \in {"filter", "table", "nodata"} =>
          Len(records) = Cardinality({i \in 1..Len(raw_data) : IsMap(raw_data[i])})

(***************************************************************************)
(* Properties of the filter (specification SpecFilter).                     *)
(***************************************************************************)
InRange(lo, x, hi) == lo <= x /\ x <= hi

\* the row satisfies every bound, a row without age satisfying the age bounds
Satisfies(c, rec) ==
    /\ InRange(c.min_apr, rec.apr, c.max_apr)
    /\ InRange(c.min_tvl, rec.tvl, c.max_tvl)
    /\ \/ rec.age_days = AgeNone
       \/ IsAgeVal(rec.age_days) /\ InRange(c.min_age, rec.age_days[2], c.max_age)

Shown == [i \in 1..Len(filtered_df) |-> filtered_df[i].idx]

\* C3: the displayed rows are exactly the rows that satisfy every bound
\* (absent age counting as in range), in input order.
C3_FilterExact ==
    pc = "table" \/ (pc = "crashed" /\ df # <<>>) =>
        Shown = SelectSeq([i \in 1..Len(records) |-> i - 1],
                          LAMBDA k : Satisfies(cfg, records[k + 1]))

NoTimestampKey(v) == \A k \in SeqRange(TsKeys) : k \notin DOMAIN v.m

\* C4: a record with no timestamp key has no age, and its row in the
\* DataFrame passes the age filter whatever the age bounds are.
C4_NoTimestampPasses ==
    pc \in {"filter", "table"} =>
        \A i \in 1..Len(raw_data) :
            NoTimestampKey(raw_data[i]) =>
                /\ records[i].age_days = AgeNone
                /\ \A c \in FilterConfigs : age_filter(c, df[i].age_days)

\* C10: every displayed row has 0 <= apr <= 100, tvl >= 0 and no age or an
\* age >= 0; a vault outside these never appears in the table.
C10_DisplayedRowsInRange ==
    pc = "table" =>
        /\ \A i \in 1..Len(filtered_df) :
              /\ InRange(0, filtered_df[i].apr, 100 * One)
              /\ filtered_df[i].tvl >= 0
              /\ \/ filtered_df[i].age_days = AgeNone
                 \/ IsAgeVal(filtered_df[i].age_days) /\ filtered_df[i].age_days[2] >= 0
        /\ \A i \in 1..Len(records) :
              \/ records[i].apr > 100 * One
              \/ records[i].apr < 0
              \/ records[i].tvl < 0
              \/ IsAgeVal(records[i].age_days) /\ records[i].age_days[2] < 0
              => \A j \in 1..Len(Shown) : Shown[j] # i - 1

C10_Witness ==
    /\ pc = "table"
    /\ raw_data = <<VaultHighApr, VaultA>>
    /\ Shown = <<1>>

(***************************************************************************)
(* Properties of process_vaults (specification SpecNorm).                   *)
(***************************************************************************)
Normalized == pc = "filter" /\ Len(raw_data) = 1

\* C5: a selected APR value v in [0, 1] gives v * 100, any other selected
\* value is kept, and no selected value gives 0.
C5_AprFraction ==
    Normalized =>
        LET sel == FirstFloat(raw_data[1], AprKeys)
            apr == records[1].apr
        IN  /\ sel.ok /\ 0 <= sel.x /\ sel.x <= One => apr = sel.x * 100
            /\ sel.ok /\ (sel.x < 0 \/ sel.x > One) => apr = sel.x
            /\ ~sel.ok => apr = 0

C5_Witness ==
    /\ Normalized
    /\ FirstFloat(raw_data[1], AprKeys) = Parsed(One)
    /\ records[1].apr = 100 * One

\* the candidate positions whose key is present, non-null and parses
Parsing(v, keys) ==
    {i \in 1..Len(keys) :
        /\ keys[i] \in DOMAIN v.m
        /\ v.m[keys[i]] # Null
        /\ PyFloat(v.m[keys[i]]).ok}

Least(S) == CHOOSE i \in S : \A j \in S : i <= j

HasNonDigit(val) ==
    val.kind = "str" /\ \E i \in 1..Len(val.cs) : val.cs[i] \notin Digits

====
